---- MODULE Spec2Model ----
(***************************************************************************)
(* The review-analytics pipeline of src/src/review_analytics.py            *)
(* (class ReviewAnalyzer) and its caller in src/app.py.                    *)
(*                                                                         *)
(* A Python str is a sequence of characters; a character is a one-element  *)
(* TLA+ string, except the bullet U+2022, which is written BULLET.  A      *)
(* percentage with one decimal place is the integer number of tenths.      *)
(***************************************************************************)
EXTENDS Integers, Sequences, FiniteSets

VARIABLES
  reviews_text,           \* the argument of analyze_reviews / the text area
  npieces,                \* how many pieces of input have been typed so far
  pc,                     \* position in the code
  reviews,                \* analyze_reviews: reviews (line 17)
  idx,                    \* analyze_reviews: position of the for loop (line 25)
  sentiments,             \* analyze_reviews: sentiments (line 23)
  overall_insights,       \* analyze_reviews: overall_insights (line 31)
  sentiment_distribution, \* analyze_reviews: sentiment_distribution (line 37)
  total_reviews,          \* analyze_reviews: total_reviews (line 35)
  result,                 \* the value returned by the operation under study
  insights_text,          \* the language model's answer to the insight prompt
  sentiment_text,         \* its answer to a sentiment prompt, as composed
  calls,                  \* the generate_content calls made so far, in order
  api_key_env,            \* app.py: os.environ holds an API key
  button,                 \* app.py: Analyze Reviews was pressed in this rerun
  reviews_analyzed,       \* app.py: st.session_state.reviews_analyzed
  analyzer,               \* app.py: how the analyzer was used in this rerun
  displayed,              \* app.py: what display_review_analytics was given
  banner                  \* app.py: the recommendation it showed

vars == <<reviews_text, npieces, pc, reviews, idx, sentiments,
          overall_insights, sentiment_distribution, total_reviews, result,
          insights_text, sentiment_text, calls,
          api_key_env, button, reviews_analyzed, analyzer, displayed, banner>>

\* the state of the user interface
ui == <<api_key_env, button, reviews_analyzed, analyzer, displayed, banner>>

(***************************************************************************)
(* Bounds of the model.                                                    *)
(***************************************************************************)
MaxPieces == 5
MaxSplitPieces == 5
MaxLines == 9
MaxCount == 10
MaxWords == 4
MaxLinePieces == 5
MaxReviews == 210

(***************************************************************************)
(* Characters and the str methods the code uses.                           *)
(***************************************************************************)
BULLET == "U+2022"

\* str.isspace / the regular expression class \s, on the characters modelled
Whitespace == {" ", "\n", "\t"}

\* the regular expression class \d
Digits == {"0", "1", "2", "3", "4", "5", "6", "7", "8", "9"}

Upper == <<"A","B","C","D","E","F","G","H","I","J","K","L","M",
           "N","O","P","Q","R","S","T","U","V","W","X","Y","Z">>
Lower == <<"a","b","c","d","e","f","g","h","i","j","k","l","m",
           "n","o","p","q","r","s","t","u","v","w","x","y","z">>

\* str.lower on one character
LowerChar(c) ==
  IF \E k \in 1..26 : Upper[k] = c
  THEN Lower[CHOOSE k \in 1..26 : Upper[k] = c]
  ELSE c

\* str.lower
ToLower(s) == [k \in 1..Len(s) |-> LowerChar(s[k])]

\* s[i:] with 1-based i
From(s, i) == SubSeq(s, i, Len(s))

\* the first position >= i of s holding a character outside cs, or Len(s)+1
RECURSIVE SkipChars(_, _, _)
SkipChars(s, i, cs) ==
  IF i <= Len(s) /\ s[i] \in cs THEN SkipChars(s, i + 1, cs) ELSE i

\* the last position <= i of s holding a character outside cs, or 0
RECURSIVE SkipCharsBack(_, _, _)
SkipCharsBack(s, i, cs) ==
  IF i >= 1 /\ s[i] \in cs THEN SkipCharsBack(s, i - 1, cs) ELSE i

\* str.lstrip(chars)
LStripChars(s, cs) == From(s, SkipChars(s, 1, cs))

\* str.strip()
Strip(s) ==
  LET a == SkipChars(s, 1, Whitespace)
      b == SkipCharsBack(s, Len(s), Whitespace)
  IN  IF a > b THEN <<>> ELSE SubSeq(s, a, b)

\* str.startswith(prefix)
StartsWith(s, prefix) ==
  Len(s) >= Len(prefix) /\ SubSeq(s, 1, Len(prefix)) = prefix

\* sub in s
Contains(s, sub) ==
  \E k \in 1..(Len(s) - Len(sub) + 1) : SubSeq(s, k, k + Len(sub) - 1) = sub

\* str.split(sep) continued: the piece in progress starts at start, the
\* search for the next separator is at i
RECURSIVE StrSplitFrom(_, _, _, _)
StrSplitFrom(s, sep, start, i) ==
  IF i + Len(sep) - 1 > Len(s) THEN << From(s, start) >>
  ELSE IF SubSeq(s, i, i + Len(sep) - 1) = sep
       THEN << SubSeq(s, start, i - 1) >>
            \o StrSplitFrom(s, sep, i + Len(sep), i + Len(sep))
       ELSE StrSplitFrom(s, sep, start, i + 1)

\* str.split(sep), sep not empty
StrSplit(s, sep) == StrSplitFrom(s, sep, 1, 1)

\* the first position >= i of s holding a character of cs, or Len(s)+1
RECURSIVE SkipUntil(_, _, _)
SkipUntil(s, i, cs) ==
  IF i <= Len(s) /\ s[i] \notin cs THEN SkipUntil(s, i + 1, cs) ELSE i

\* len(s.split()) continued from position i: the number of maximal runs of
\* non-whitespace characters
RECURSIVE CountTokensFrom(_, _)
CountTokensFrom(s, i) ==
  LET a == SkipChars(s, i, Whitespace)
  IN  IF a > Len(s) THEN 0
      ELSE 1 + CountTokensFrom(s, SkipUntil(s, a, Whitespace))

\* len(s.split())
CountTokens(s) == CountTokensFrom(s, 1)

\* [r.strip() for r in pieces]: the empty pieces kept
RECURSIVE StripNonEmpty_KeepEmpty(_)
StripNonEmpty_KeepEmpty(pieces) ==
  IF pieces = <<>> THEN <<>>
  ELSE << Strip(Head(pieces)) >> \o StripNonEmpty_KeepEmpty(Tail(pieces))

\* [r.strip() for r in pieces if r.strip()]
RECURSIVE StripNonEmpty(_)
StripNonEmpty(pieces) ==
  IF pieces = <<>> THEN <<>>
  ELSE LET r == Strip(Head(pieces))
       IN  (IF r # <<>> THEN <<r>> ELSE <<>>) \o StripNonEmpty(Tail(pieces))

\* "No valid reviews found" (analyze_reviews, line 20)
NoValidReviews ==
  <<"N","o"," ","v","a","l","i","d"," ","r","e","v","i","e","w","s"," ","f",
    "o","u","n","d">>

\* "Unable to generate insights from reviews" (_get_overall_insights, line 148)
UnableMsg ==
  <<"U","n","a","b","l","e"," ","t","o"," ","g","e","n","e","r","a","t","e",
    " ","i","n","s","i","g","h","t","s"," ","f","r","o","m"," ","r","e","v",
    "i","e","w","s">>

\* "Overwhelmingly positive reviews - visitors love this destination!" (line 162)
OverwhelminglyPositive ==
  <<"O","v","e","r","w","h","e","l","m","i","n","g","l","y"," ","p","o","s",
    "i","t","i","v","e"," ","r","e","v","i","e","w","s"," ","-"," ","v","i",
    "s","i","t","o","r","s"," ","l","o","v","e"," ","t","h","i","s"," ","d",
    "e","s","t","i","n","a","t","i","o","n","!">>

\* "Generally positive sentiment with most visitors having good experiences" (line 164)
GenerallyPositive ==
  <<"G","e","n","e","r","a","l","l","y"," ","p","o","s","i","t","i","v","e",
    " ","s","e","n","t","i","m","e","n","t"," ","w","i","t","h"," ","m","o",
    "s","t"," ","v","i","s","i","t","o","r","s"," ","h","a","v","i","n","g",
    " ","g","o","o","d"," ","e","x","p","e","r","i","e","n","c","e","s">>

\* "Concerning number of negative reviews - consider investigating common issues" (line 166)
ConcerningNegative ==
  <<"C","o","n","c","e","r","n","i","n","g"," ","n","u","m","b","e","r"," ",
    "o","f"," ","n","e","g","a","t","i","v","e"," ","r","e","v","i","e","w",
    "s"," ","-"," ","c","o","n","s","i","d","e","r"," ","i","n","v","e","s",
    "t","i","g","a","t","i","n","g"," ","c","o","m","m","o","n"," ","i","s",
    "s","u","e","s">>

\* "Mixed reviews with varied visitor experiences" (line 168)
MixedReviews ==
  <<"M","i","x","e","d"," ","r","e","v","i","e","w","s"," ","w","i","t","h",
    " ","v","a","r","i","e","d"," ","v","i","s","i","t","o","r"," ","e","x",
    "p","e","r","i","e","n","c","e","s">>

\* "Strong positive sentiment indicates high visitor satisfaction" (line 171)
StrongPositive ==
  <<"S","t","r","o","n","g"," ","p","o","s","i","t","i","v","e"," ","s","e",
    "n","t","i","m","e","n","t"," ","i","n","d","i","c","a","t","e","s"," ",
    "h","i","g","h"," ","v","i","s","i","t","o","r"," ","s","a","t","i","s",
    "f","a","c","t","i","o","n">>

(***************************************************************************)
(* _split_reviews (lines 56-79).                                           *)
(***************************************************************************)
NL == "\n"

\* the text "review", which the pattern of line 73 matches ignoring case
ReviewWord == <<"r", "e", "v", "i", "e", "w">>

\* The pattern \d+\.\s* of line 67 tried at position i of text: the position
\* of the last character it matches, or 0 when it does not match there.
\* \d+ takes the whole run of digits, which must be followed by a period;
\* \s* then takes all the whitespace that follows.
NumberedMatchEnd(text, i) ==
  IF text[i] \notin Digits THEN 0
  ELSE LET d == SkipChars(text, i, Digits)
       IN  IF d <= Len(text) /\ text[d] = "."
           THEN SkipChars(text, d + 1, Whitespace) - 1
           ELSE 0

\* The pattern Review\s*:?\s* of line 73, with re.IGNORECASE, tried at
\* position i of text: the position of the last character it matches, or 0.
ReviewMatchEnd(text, i) ==
  IF i + 5 <= Len(text) /\ ToLower(SubSeq(text, i, i + 5)) = ReviewWord
  THEN LET j == SkipChars(text, i + 6, Whitespace)
           k == IF j <= Len(text) /\ text[j] = ":" THEN j + 1 ELSE j
       IN  SkipChars(text, k, Whitespace) - 1
  ELSE 0

\* re.split(numbered_pattern, text) continued: the piece in progress starts
\* at start, the search for the next match is at i
RECURSIVE NumberedSplitFrom(_, _, _)
NumberedSplitFrom(text, start, i) ==
  IF i > Len(text) THEN << From(text, start) >>
  ELSE LET e == NumberedMatchEnd(text, i)
       IN  IF e = 0 THEN NumberedSplitFrom(text, start, i + 1)
           ELSE << SubSeq(text, start, i - 1) >>
                \o NumberedSplitFrom(text, e + 1, e + 1)

\* re.split(review_pattern, text, flags=re.IGNORECASE) continued
RECURSIVE ReviewSplitFrom(_, _, _)
ReviewSplitFrom(text, start, i) ==
  IF i > Len(text) THEN << From(text, start) >>
  ELSE LET e == ReviewMatchEnd(text, i)
       IN  IF e = 0 THEN ReviewSplitFrom(text, start, i + 1)
           ELSE << SubSeq(text, start, i - 1) >>
                \o ReviewSplitFrom(text, e + 1, e + 1)

\* text.split('\n') in place of text.split('\n\n')
SplitBlankLines_SingleBreak(text) == StrSplit(text, <<NL>>)

\* text.split('\n\n') (line 62)
SplitBlankLines(text) == StrSplit(text, <<NL, NL>>)

\* re.split(r'\d+\.\s*', text) (line 68)
SplitNumbered(text) == NumberedSplitFrom(text, 1, 1)

\* re.split(r'Review\s*:?\s*', text, flags=re.IGNORECASE) (line 74)
SplitReviewMarker(text) == ReviewSplitFrom(text, 1, 1)

\* a condition len(reviews) >= 1 in place of len(reviews) > 1
MoreThanOne_AtLeastOne(pieces) == Len(pieces) >= 1

\* the condition len(reviews) > 1 of lines 63, 69 and 75
MoreThanOne(pieces) == Len(pieces) > 1

\* len(...) > 1 tested on the non-empty trimmed pieces instead of on the
\* pieces of the split
_split_reviews_NonEmptyCount(text) ==
  IF MoreThanOne(StripNonEmpty(SplitBlankLines(text)))
  THEN StripNonEmpty(SplitBlankLines(text))
  ELSE IF MoreThanOne(StripNonEmpty(SplitNumbered(text)))
  THEN StripNonEmpty(SplitNumbered(text))
  ELSE IF MoreThanOne(StripNonEmpty(SplitReviewMarker(text)))
  THEN StripNonEmpty(SplitReviewMarker(text))
  ELSE IF Strip(text) # <<>> THEN << Strip(text) >> ELSE <<>>

\* Method 2 tried before Method 1
_split_reviews_NumberedFirst(text) ==
  IF MoreThanOne(SplitNumbered(text))
  THEN StripNonEmpty(SplitNumbered(text))
  ELSE IF MoreThanOne(SplitBlankLines(text))
  THEN StripNonEmpty(SplitBlankLines(text))
  ELSE IF MoreThanOne(SplitReviewMarker(text))
  THEN StripNonEmpty(SplitReviewMarker(text))
  ELSE IF Strip(text) # <<>> THEN << Strip(text) >> ELSE <<>>

_split_reviews(text) ==
  IF MoreThanOne(SplitBlankLines(text))
  THEN StripNonEmpty(SplitBlankLines(text))
  ELSE IF MoreThanOne(SplitNumbered(text))
  THEN StripNonEmpty(SplitNumbered(text))
  ELSE IF MoreThanOne(SplitReviewMarker(text))
  THEN StripNonEmpty(SplitReviewMarker(text))
  ELSE IF Strip(text) # <<>> THEN << Strip(text) >> ELSE <<>>

(***************************************************************************)
(* State common to the specifications.                                     *)
(***************************************************************************)
\* Python's None
None == [none |-> TRUE]

\* the counts of an analysis that has classified nothing
NoCounts == [Positive |-> 0, Neutral |-> 0, Negative |-> 0]

\* the state before any text has been entered and any operation called
Init ==
  /\ reviews_text = <<>>
  /\ npieces = 0
  /\ pc = "input"
  /\ reviews = <<>>
  /\ idx = 0
  /\ sentiments = <<>>
  /\ overall_insights = <<>>
  /\ sentiment_distribution = NoCounts
  /\ total_reviews = 0
  /\ result = None
  /\ insights_text = <<>>
  /\ sentiment_text = <<>>
  /\ api_key_env = FALSE
  /\ button = FALSE
  /\ reviews_analyzed = None
  /\ analyzer = "no"
  /\ displayed = None
  /\ banner = "none"
  /\ calls = <<>>

analysis == <<reviews, idx, sentiments, overall_insights,
              sentiment_distribution, total_reviews, result, calls>>

\* The user extends the text by one piece out of pieces (at most max pieces).
Type(pieces, max) ==
  /\ pc = "input"
  /\ npieces < max
  /\ \E p \in pieces : reviews_text' = reviews_text \o p
  /\ npieces' = npieces + 1
  /\ UNCHANGED <<pc, analysis, insights_text, sentiment_text, ui>>

(***************************************************************************)
(* SpecSplit: _split_reviews applied to every text of at most              *)
(* MaxSplitPieces pieces.                                                  *)
(***************************************************************************)
SplitPieces ==
  { <<" ">>, <<NL>>, <<NL, NL>>, <<"a">>, <<"1">>, <<".">>, <<":">>,
    <<"R", "e", "v", "i", "e", "w">> }

TypeSegmentText == Type(SplitPieces, MaxSplitPieces)

\* reviews = self._split_reviews(reviews_text)
CallSplitReviews ==
  /\ pc = "input"
  /\ reviews' = _split_reviews(reviews_text)
  /\ pc' = "split"
  /\ UNCHANGED <<reviews_text, npieces, idx, sentiments, overall_insights,
                 sentiment_distribution, total_reviews, result,
                 insights_text, sentiment_text, calls, ui>>

NextSplit == TypeSegmentText \/ CallSplitReviews

SpecSplit == Init /\ [][NextSplit]_vars

(***************************************************************************)
(* C10.  Which texts have no segment.                                      *)
(***************************************************************************)
\* text is whitespace and enumeration markers only: it reads
\* ws* (digit+ "." ws*)+ .  st is 0 before the first marker, 1 inside the
\* digits of a marker, 2 after the period of a marker.
RECURSIVE EnumerationOnlyFrom(_, _, _)
EnumerationOnlyFrom(text, i, st) ==
  IF i > Len(text) THEN st = 2
  ELSE LET c == text[i]
       IN  CASE c \in Digits -> EnumerationOnlyFrom(text, i + 1, 1)
             [] c = "." /\ st = 1 -> EnumerationOnlyFrom(text, i + 1, 2)
             [] c \in Whitespace /\ st # 1 ->
                  EnumerationOnlyFrom(text, i + 1, st)
             [] OTHER -> FALSE

\* text is whitespace and "Review" markers only: it reads
\* ws* ("review" ws* (":" ws*)?)+ , letters in either case.  st is 0 before
\* the first marker, 1 after the word of a marker, 2 after its colon.
RECURSIVE ReviewWordsOnlyFrom(_, _, _)
ReviewWordsOnlyFrom(text, i, st) ==
  IF i > Len(text) THEN st # 0
  ELSE LET c == text[i]
       IN  CASE c \in Whitespace -> ReviewWordsOnlyFrom(text, i + 1, st)
             [] c = ":" /\ st = 1 -> ReviewWordsOnlyFrom(text, i + 1, 2)
             [] c \notin Whitespace /\ i + 5 <= Len(text)
                /\ \A k \in 1..6 : LowerChar(text[i + k - 1]) = ReviewWord[k]
                  -> ReviewWordsOnlyFrom(text, i + 6, 1)
             [] OTHER -> FALSE

HasBlankLine(text) ==
  \E k \in 1..(Len(text) - 1) : text[k] = NL /\ text[k + 1] = NL

MarkersOnly(text) ==
  /\ ~HasBlankLine(text)
  /\ EnumerationOnlyFrom(text, 1, 0) \/ ReviewWordsOnlyFrom(text, 1, 0)

Blank(text) == \A k \in 1..Len(text) : text[k] \in Whitespace

\* C10 as stated: _split_reviews returns no segment if and only if the
\* trimmed input is empty.
C10_EmptyIffBlank ==
  pc = "split" => (reviews = <<>> <=> Blank(reviews_text))

\* C10 amended: _split_reviews returns no segment if and only if the input
\* is blank, or has no blank-line separator and consists only of whitespace
\* and enumeration markers, or only of whitespace and "Review" markers.
C10_EmptyIffBlankOrMarkersOnly ==
  pc = "split" =>
    (reviews = <<>> <=> (Blank(reviews_text) \/ MarkersOnly(reviews_text)))

\* C10 witness: a text with a non-whitespace character and no segment.
C10_Witness ==
  /\ pc = "split"
  /\ ~Blank(reviews_text)
  /\ reviews = <<>>

(***************************************************************************)
(* The language model.  A reply to generate_content is a record: fails is  *)
(* "call" when generate_content raises, "text" when reading response.text  *)
(* raises, and "no" when the reply carries text.                           *)
(***************************************************************************)
Reply(t) == [fails |-> "no", text |-> t]
CallFails == [fails |-> "call", text |-> <<>>]
TextFails == [fails |-> "text", text |-> <<>>]

\* what an operator returns when an exception leaves the function instead
Raised == << "raised" >>

\* lines joined by line breaks
RECURSIVE JoinLines(_)
JoinLines(lines) ==
  IF lines = <<>> THEN <<>>
  ELSE IF Len(lines) = 1 THEN lines[1]
  ELSE lines[1] \o <<NL>> \o JoinLines(Tail(lines))

(***************************************************************************)
(* _analyze_single_review_sentiment (lines 81-108).                        *)
(***************************************************************************)
positive == <<"p", "o", "s", "i", "t", "i", "v", "e">>
negative == <<"n", "e", "g", "a", "t", "i", "v", "e">>
neutral == <<"n", "e", "u", "t", "r", "a", "l">>

\* the value returned by the except branch (line 108)
SentimentOnError == neutral

\* the normalised answer returned as it is, valid label or not
_analyze_single_review_sentiment_Unvalidated(review, reply) ==
  IF reply.fails # "no" THEN SentimentOnError
  ELSE ToLower(Strip(reply.text))

\* the body of the try block without the except branch
_analyze_single_review_sentiment_NoCatch(review, reply) ==
  IF reply.fails # "no" THEN Raised
  ELSE LET sentiment == ToLower(Strip(reply.text))
       IN  IF sentiment \in {positive, negative, neutral} THEN sentiment
           ELSE IF Contains(sentiment, positive) THEN positive
           ELSE IF Contains(sentiment, negative) THEN negative
           ELSE neutral

\* 'negative' looked for before 'positive' (lines 99-102 exchanged)
_analyze_single_review_sentiment_NegativeFirst(review, reply) ==
  IF reply.fails # "no" THEN SentimentOnError
  ELSE LET sentiment == ToLower(Strip(reply.text))
       IN  IF sentiment \in {positive, negative, neutral} THEN sentiment
           ELSE IF Contains(sentiment, negative) THEN negative
           ELSE IF Contains(sentiment, positive) THEN positive
           ELSE neutral

\* review only enters the prompt; reply is what the model answers to it
_analyze_single_review_sentiment(review, reply) ==
  IF reply.fails # "no" THEN SentimentOnError
  ELSE LET sentiment == ToLower(Strip(reply.text))
       IN  IF sentiment \in {positive, negative, neutral} THEN sentiment
           ELSE IF Contains(sentiment, positive) THEN positive
           ELSE IF Contains(sentiment, negative) THEN negative
           ELSE neutral

(***************************************************************************)
(* _get_overall_insights (lines 110-148).                                  *)
(***************************************************************************)
InsightLimit == 7
SubstantialTokens == 3

\* the characters of line.lstrip('\u2022-* ') (line 138)
MarkerChars == {BULLET, "-", "*", " "}

\* the body of the for loop without the test "if insight:" of line 139
ParseInsightLine_KeepEmpty(raw) ==
  LET line == Strip(raw)
  IN  IF line # <<>> /\ (\/ StartsWith(line, << BULLET >>)
                         \/ StartsWith(line, << "-" >>)
                         \/ StartsWith(line, << "*" >>))
      THEN << Strip(LStripChars(line, MarkerChars)) >>
      ELSE IF line # <<>> /\ CountTokens(line) > SubstantialTokens
      THEN << line >>
      ELSE <<>>

\* the body of the for loop (lines 136-142) for one line: what it appends
ParseInsightLine(raw) ==
  LET line == Strip(raw)
  IN  IF line # <<>> /\ (\/ StartsWith(line, << BULLET >>)
                         \/ StartsWith(line, << "-" >>)
                         \/ StartsWith(line, << "*" >>))
      THEN LET insight == Strip(LStripChars(line, MarkerChars))
           IN  IF insight # <<>> THEN << insight >> ELSE <<>>
      ELSE IF line # <<>> /\ CountTokens(line) > SubstantialTokens
      THEN << line >>
      ELSE <<>>

\* the for loop of lines 135-142
RECURSIVE ParseInsightLines(_)
ParseInsightLines(lines) ==
  IF lines = <<>> THEN <<>>
  ELSE ParseInsightLine(Head(lines)) \o ParseInsightLines(Tail(lines))

\* insights[-7:] in place of insights[:7]
LimitInsights_Last(insights) ==
  SubSeq(insights,
         IF Len(insights) > InsightLimit
           THEN Len(insights) - InsightLimit + 1 ELSE 1,
         Len(insights))

\* insights[:7] (line 144)
LimitInsights(insights) ==
  SubSeq(insights, 1,
         IF Len(insights) < InsightLimit THEN Len(insights) ELSE InsightLimit)

\* the exception raised again instead of a value being returned
InsightsOnError_Raise == Raised

\* the value returned by the except branch (line 148)
InsightsOnError == << UnableMsg >>

\* text only enters the prompt; reply is what the model answers to it
_get_overall_insights(text, reply) ==
  IF reply.fails # "no" THEN InsightsOnError
  ELSE LimitInsights(ParseInsightLines(StrSplit(reply.text, <<NL>>)))

(***************************************************************************)
(* _generate_summary_insights (lines 150-173).  positive_pct > 70 is       *)
(* compared exactly: Positive * 100 > 70 * total_reviews.                  *)
(***************************************************************************)
OverwhelmingPct == 70
MajorityPct == 50

\* the tier message of lines 161-168
TierInsight(sentiment_dist, total) ==
  IF sentiment_dist.Positive * 100 > OverwhelmingPct * total
    THEN OverwhelminglyPositive
  ELSE IF sentiment_dist.Positive * 100 > MajorityPct * total
    THEN GenerallyPositive
  ELSE IF sentiment_dist.Negative * 100 > MajorityPct * total
    THEN ConcerningNegative
  ELSE MixedReviews

\* >= in place of > in the three comparisons of lines 161-165
_generate_summary_insights_NonStrict(sentiment_dist, total) ==
  IF total = 0 THEN <<>>
  ELSE
    (IF sentiment_dist.Positive * 100 >= OverwhelmingPct * total
       THEN << OverwhelminglyPositive >>
     ELSE IF sentiment_dist.Positive * 100 >= MajorityPct * total
       THEN << GenerallyPositive >>
     ELSE IF sentiment_dist.Negative * 100 >= MajorityPct * total
       THEN << ConcerningNegative >>
     ELSE << MixedReviews >>)
    \o
    (IF sentiment_dist.Positive > sentiment_dist.Negative * 2
       THEN << StrongPositive >>
     ELSE <<>>)

\* line 170 with Positive and Negative exchanged
_generate_summary_insights_StrongSwapped(sentiment_dist, total) ==
  IF total = 0 THEN <<>>
  ELSE
    << TierInsight(sentiment_dist, total) >>
    \o
    (IF sentiment_dist.Negative > sentiment_dist.Positive * 2
       THEN << StrongPositive >>
     ELSE <<>>)

\* line 170 with >= in place of >
_generate_summary_insights_StrongAtLeast(sentiment_dist, total) ==
  IF total = 0 THEN <<>>
  ELSE
    << TierInsight(sentiment_dist, total) >>
    \o
    (IF sentiment_dist.Positive >= sentiment_dist.Negative * 2
       THEN << StrongPositive >>
     ELSE <<>>)

\* without the test of line 155: the division of line 158 raises
\* ZeroDivisionError when total_reviews is 0
_generate_summary_insights_NoZeroCheck(sentiment_dist, total) ==
  IF total = 0 THEN Raised
  ELSE
    << TierInsight(sentiment_dist, total) >>
    \o
    (IF sentiment_dist.Positive > sentiment_dist.Negative * 2
       THEN << StrongPositive >>
     ELSE <<>>)

_generate_summary_insights(sentiment_dist, total) ==
  IF total = 0 THEN <<>>
  ELSE
    << TierInsight(sentiment_dist, total) >>
    \o
    (IF sentiment_dist.Positive > sentiment_dist.Negative * 2
       THEN << StrongPositive >>
     ELSE <<>>)

(***************************************************************************)
(* analyze_reviews (lines 13-54).                                          *)
(***************************************************************************)
MinLength == 10

\* len(review.strip()) >= 10 in place of len(review.strip()) > 10
Eligible_AtLeast(review) == Len(Strip(review)) >= MinLength

\* len(review.strip()) > 10 (line 26)
Eligible(review) == Len(Strip(review)) > MinLength

\* Counter(sentiments).get(label, 0) (lines 34, 38-40)
RECURSIVE CountOf(_, _)
CountOf(label, labels) ==
  IF labels = <<>> THEN 0
  ELSE (IF Head(labels) = label THEN 1 ELSE 0) + CountOf(label, Tail(labels))

\* sentiment_distribution of lines 37-41
Distribution(labels) ==
  [Positive |-> CountOf(positive, labels),
   Neutral  |-> CountOf(neutral, labels),
   Negative |-> CountOf(negative, labels)]

\* int((v/total)*100*10)/10: the tenths cut off instead of rounded
Round1_Floor(v, total) == (v * 1000) \div total

\* the tenths rounded up instead of rounded to the nearest
Round1_Ceiling(v, total) ==
  (v * 1000) \div total + (IF (v * 1000) % total = 0 THEN 0 ELSE 1)

\* the quotients v/total at which the double (v/total)*100 is a tie of the
\* rounding in exact arithmetic but lies just below it in binary floating
\* point (28.75, 61.25 and 63.75, which round() takes down)
TieBelow(v, total) == 80 * v \in {23 * total, 49 * total, 51 * total}

\* round((v/total_reviews)*100, 1) (line 51), in tenths of a percent: the
\* nearest tenth, a tie going to the even tenth unless the double is below
\* it (equal to the value Python computes for every total_reviews < 260)
Round1(v, total) ==
  LET q == (v * 1000) \div total
      r == (v * 1000) % total
  IN  IF 2 * r > total \/ (2 * r = total /\ q % 2 = 1 /\ ~TieBelow(v, total))
      THEN q + 1
      ELSE q

\* the dictionary comprehension of lines 50-53
Percentages(dist, total) ==
  [k \in DOMAIN dist |-> IF total > 0 THEN Round1(dist[k], total) ELSE 0]

\* summary_insights + overall_insights in place of line 49
JoinInsights_SummaryFirst(overall, summary) == summary \o overall

\* overall_insights + summary_insights (line 49)
JoinInsights(overall, summary) == overall \o summary

\* the dictionary returned by lines 46-54
AnalysisResult(dist, total, overall) ==
  [total_reviews |-> total,
   sentiment_distribution |-> dist,
   insights |-> JoinInsights(overall, _generate_summary_insights(dist, total)),
   sentiment_percentages |-> Percentages(dist, total)]

\* the dictionary returned by line 20
ErrorResult == [error |-> NoValidReviews]

Call(fn, arg, reply) == [fn |-> fn, arg |-> arg, fails |-> reply.fails]

(***************************************************************************)
(* Spec: analyze_reviews on every text of at most MaxPieces pieces, the    *)
(* language model answering each call with any of the replies below.       *)
(***************************************************************************)
Rep(c, n) == [k \in 1..n |-> c]

ReviewPieces ==
  { <<" ">>, <<NL, NL>>, Rep("x", 5), Rep("y", 11) }

SentimentReplies ==
  { CallFails, TextFails,
    Reply(positive),
    Reply(<<" ", "N">> \o Tail(negative) \o <<NL>>),
    Reply(neutral),
    Reply(<<"n", "o", "t", " ">> \o positive),
    Reply(<<"u", "n", "s", "u", "r", "e">>) }

BulletLine(c) == <<"-", " ", c>>

InsightReplies ==
  { CallFails, TextFails,
    Reply(<<>>),
    Reply(JoinLines(<< <<"*", " ", "a", " ", "b">>, <<"c", " ", "d">>,
                       <<"e", " ", "f", " ", "g", " ", "h">> >>)),
    Reply(JoinLines([k \in 1..8 |-> BulletLine(Lower[k])])) }

TypeReviewText == Type(ReviewPieces, MaxPieces)

\* lines 17-23: segmentation, and the error result when there is no segment
AnalyzeReviews ==
  /\ pc = "input"
  /\ reviews' = _split_reviews(reviews_text)
  /\ IF reviews' = <<>>
     THEN /\ result' = ErrorResult
          /\ pc' = "returned"
          /\ idx' = idx
     ELSE /\ result' = result
          /\ pc' = "loop"
          /\ idx' = 1
  /\ sentiments' = <<>>
  /\ UNCHANGED <<reviews_text, npieces, overall_insights,
                 sentiment_distribution, total_reviews, insights_text,
                 sentiment_text, calls, ui>>

\* lines 25-26: a review that is not substantial is passed over
SkipReview ==
  /\ pc = "loop"
  /\ idx <= Len(reviews)
  /\ ~Eligible(reviews[idx])
  /\ idx' = idx + 1
  /\ UNCHANGED <<reviews_text, npieces, pc, reviews, sentiments,
                 overall_insights, sentiment_distribution, total_reviews,
                 result, insights_text, sentiment_text, calls, ui>>

\* the call of line 93 made a second time when the first one failed
ClassifyReview_RetryOnce ==
  /\ pc = "loop"
  /\ idx <= Len(reviews)
  /\ Eligible(reviews[idx])
  /\ \E reply \in SentimentReplies, second \in SentimentReplies :
       LET retried == reply.fails # "no"
           last == IF retried THEN second ELSE reply
           sentiment == _analyze_single_review_sentiment(reviews[idx], last)
           first == Append(calls, Call("sentiment", reviews[idx], reply))
       IN  /\ calls' = IF retried
                       THEN Append(first,
                                   Call("sentiment", reviews[idx], second))
                       ELSE first
           /\ pc' = pc
           /\ idx' = idx + 1
           /\ sentiments' = Append(sentiments, sentiment)
  /\ UNCHANGED <<reviews_text, npieces, reviews, overall_insights,
                 sentiment_distribution, total_reviews, result,
                 insights_text, sentiment_text, ui>>

\* lines 26-28: a substantial review is classified
ClassifyReview ==
  /\ pc = "loop"
  /\ idx <= Len(reviews)
  /\ Eligible(reviews[idx])
  /\ \E reply \in SentimentReplies :
       LET sentiment == _analyze_single_review_sentiment(reviews[idx], reply)
       IN  /\ calls' = Append(calls, Call("sentiment", reviews[idx], reply))
           /\ IF sentiment = Raised
              THEN /\ pc' = "raised"
                   /\ UNCHANGED <<idx, sentiments>>
              ELSE /\ pc' = pc
                   /\ idx' = idx + 1
                   /\ sentiments' = Append(sentiments, sentiment)
  /\ UNCHANGED <<reviews_text, npieces, reviews, overall_insights,
                 sentiment_distribution, total_reviews, result,
                 insights_text, sentiment_text, ui>>

\* lines 31-54: the insights are asked for, the labels counted and the
\* result returned
SummarizeAndReturn ==
  /\ pc = "loop"
  /\ idx > Len(reviews)
  /\ \E reply \in InsightReplies :
       LET overall == _get_overall_insights(reviews_text, reply)
           summary == _generate_summary_insights(Distribution(sentiments),
                                                 Len(sentiments))
       IN  /\ calls' = Append(calls, Call("insights", reviews_text, reply))
           /\ insights_text' = reply.text
           /\ IF overall = Raised \/ summary = Raised
              THEN /\ pc' = "raised"
                   /\ UNCHANGED <<overall_insights, sentiment_distribution,
                                  total_reviews, result>>
              ELSE /\ pc' = "returned"
                   /\ overall_insights' = overall
                   /\ sentiment_distribution' = Distribution(sentiments)
                   /\ total_reviews' = Len(sentiments)
                   /\ result' = AnalysisResult(sentiment_distribution',
                                               total_reviews', overall)
  /\ UNCHANGED <<reviews_text, npieces, reviews, idx, sentiments,
                 sentiment_text, ui>>

Next ==
  \/ TypeReviewText
  \/ AnalyzeReviews
  \/ SkipReview
  \/ ClassifyReview
  \/ SummarizeAndReturn

Spec == Init /\ [][Next]_vars

(***************************************************************************)
(* SpecInsights: _get_overall_insights on every reply of at most MaxLines  *)
(* lines, and on a failing call.                                           *)
(***************************************************************************)
ReplyLines ==
  { <<"-", " ", "a">>,
    <<"b", " ", "c", " ", "d", " ", "e">>,
    <<" ", "*">> }

\* the language model's answer grows by one line
ModelWritesLine ==
  /\ pc = "input"
  /\ npieces < MaxLines
  /\ \E line \in ReplyLines :
       insights_text' =
         IF npieces = 0 THEN line ELSE insights_text \o <<NL>> \o line
  /\ npieces' = npieces + 1
  /\ UNCHANGED <<reviews_text, pc, analysis, sentiment_text, ui>>

\* overall_insights = self._get_overall_insights(reviews_text)
CallGetOverallInsights ==
  /\ pc = "input"
  /\ \E reply \in {Reply(insights_text), CallFails, TextFails} :
       LET overall == _get_overall_insights(reviews_text, reply)
       IN  /\ calls' = Append(calls, Call("insights", reviews_text, reply))
           /\ IF overall = Raised
              THEN pc' = "raised" /\ overall_insights' = overall_insights
              ELSE pc' = "returned" /\ overall_insights' = overall
  /\ UNCHANGED <<reviews_text, npieces, reviews, idx, sentiments,
                 sentiment_distribution, total_reviews, result,
                 insights_text, sentiment_text, ui>>

NextInsights == ModelWritesLine \/ CallGetOverallInsights

SpecInsights == Init /\ [][NextInsights]_vars

(***************************************************************************)
(* SpecLine: _get_overall_insights on every one-line reply of at most      *)
(* MaxLinePieces pieces.                                                   *)
(***************************************************************************)
LinePieces ==
  { <<"-">>, <<"*">>, <<BULLET>>, <<" ">>, <<"a">>, <<"a", " ">> }

\* the language model's one-line answer grows by one piece
ModelWritesPiece ==
  /\ pc = "input"
  /\ npieces < MaxLinePieces
  /\ \E piece \in LinePieces : insights_text' = insights_text \o piece
  /\ npieces' = npieces + 1
  /\ UNCHANGED <<reviews_text, pc, analysis, sentiment_text, ui>>

NextLine == ModelWritesPiece \/ CallGetOverallInsights

SpecLine == Init /\ [][NextLine]_vars

(***************************************************************************)
(* SpecSentiment: _analyze_single_review_sentiment on every reply of at    *)
(* most MaxWords words, and on a failing call.                             *)
(***************************************************************************)
AnswerWords ==
  { positive, <<"N">> \o Tail(negative), neutral, <<" ">>, <<NL>>, <<"x">> }

\* the language model's answer grows by one word
ModelWritesWord ==
  /\ pc = "input"
  /\ npieces < MaxWords
  /\ \E word \in AnswerWords : sentiment_text' = sentiment_text \o word
  /\ npieces' = npieces + 1
  /\ UNCHANGED <<reviews_text, pc, analysis, insights_text, ui>>

\* sentiment = self._analyze_single_review_sentiment(review)
CallAnalyzeSingleReviewSentiment ==
  /\ pc = "input"
  /\ \E reply \in {Reply(sentiment_text), CallFails, TextFails} :
       LET sentiment == _analyze_single_review_sentiment(reviews_text, reply)
       IN  /\ calls' = Append(calls, Call("sentiment", reviews_text, reply))
           /\ IF sentiment = Raised
              THEN pc' = "raised" /\ sentiments' = sentiments
              ELSE pc' = "returned" /\ sentiments' = << sentiment >>
  /\ UNCHANGED <<reviews_text, npieces, reviews, idx, overall_insights,
                 sentiment_distribution, total_reviews, result,
                 insights_text, sentiment_text, ui>>

NextSentiment == ModelWritesWord \/ CallAnalyzeSingleReviewSentiment

SpecSentiment == Init /\ [][NextSentiment]_vars

(***************************************************************************)
(* SpecCounts: lines 33-54 of analyze_reviews on every sentiment           *)
(* distribution with at most MaxCount labels of each kind.                 *)
(***************************************************************************)
\* analyze_reviews at line 33, the labels known by their counts
InitCounts ==
  /\ reviews_text = <<>>
  /\ npieces = 0
  /\ pc = "counted"
  /\ reviews = <<>>
  /\ idx = 0
  /\ sentiments = <<>>
  /\ overall_insights = <<>>
  /\ sentiment_distribution \in
       [{"Positive", "Neutral", "Negative"} -> 0..MaxCount]
  /\ total_reviews = sentiment_distribution.Positive
                     + sentiment_distribution.Neutral
                     + sentiment_distribution.Negative
  /\ result = None
  /\ insights_text = <<>>
  /\ sentiment_text = <<>>
  /\ api_key_env = FALSE
  /\ button = FALSE
  /\ reviews_analyzed = None
  /\ analyzer = "no"
  /\ displayed = None
  /\ banner = "none"
  /\ calls = <<>>

\* lines 43-54
ReturnResult ==
  /\ pc = "counted"
  /\ result' = AnalysisResult(sentiment_distribution, total_reviews,
                              overall_insights)
  /\ pc' = "returned"
  /\ UNCHANGED <<reviews_text, npieces, reviews, idx, sentiments,
                 overall_insights, sentiment_distribution, total_reviews,
                 insights_text, sentiment_text, calls, ui>>

NextCounts == ReturnResult

SpecCounts == InitCounts /\ [][NextCounts]_vars

(***************************************************************************)
(* Notions the claims are stated with.                                     *)
(***************************************************************************)
Labels == {"Positive", "Neutral", "Negative"}

Abs(x) == IF x < 0 THEN -x ELSE x

\* the result is the error variant
IsError(r) == "error" \in DOMAIN r

\* the length of s without its leading and trailing whitespace: the
\* positions that have a non-whitespace character at or before them and one
\* at or after them
TrimmedLength(s) ==
  Cardinality({ k \in 1..Len(s) :
                  /\ \E a \in 1..k : s[a] \notin Whitespace
                  /\ \E b \in k..Len(s) : s[b] \notin Whitespace })

\* the segments the spec calls eligible, in order
EligibleSegments(segments) ==
  SelectSeq(segments, LAMBDA r : TrimmedLength(r) >= 11)

\* the calls made to the sentiment classifier, in order
SentimentCalls == SelectSeq(calls, LAMBDA c : c.fn = "sentiment")

\* how many of the labels collected are label
Occurrences(label) ==
  Cardinality({ k \in 1..Len(sentiments) : sentiments[k] = label })

\* the segments the for loop has gone past
Visited ==
  IF pc = "loop" THEN SubSeq(reviews, 1, idx - 1)
  ELSE IF pc = "raised" /\ idx <= Len(reviews) THEN SubSeq(reviews, 1, idx)
  ELSE reviews

(***************************************************************************)
(* C1 - C3, C6, C7, C9: analyze_reviews (Spec).                            *)
(***************************************************************************)
\* C1: analyze_reviews on a text of whitespace only returns, without raising
\* and without calling the language model, a result whose only field is
\* error, with the message "No valid reviews found".
C1_BlankTextGivesOnlyTheError ==
  (pc # "input" /\ Blank(reviews_text)) =>
    /\ pc = "returned"
    /\ DOMAIN result = {"error"}
    /\ result.error = NoValidReviews
    /\ calls = <<>>

\* C1 witness: a returned analysis of a whitespace text with a blank-line
\* separator in it.
C1_Witness ==
  /\ pc = "returned"
  /\ Blank(reviews_text)
  /\ HasBlankLine(reviews_text)
  /\ Len(reviews_text) > 2
  /\ IsError(result)

\* C2: the segments submitted to the classifier are exactly the segments of
\* trimmed length 11 or more, in order, and total_reviews is their number.
C2_OnlySegmentsOver10AreClassified ==
  /\ [k \in 1..Len(SentimentCalls) |-> SentimentCalls[k].arg]
       = EligibleSegments(Visited)
  /\ (pc = "returned" /\ ~IsError(result)) =>
       result.total_reviews = Len(EligibleSegments(reviews))

\* C2 witness: a segment of 10 characters and one of 11 give total_reviews 1.
C2_Witness ==
  /\ pc = "returned"
  /\ ~IsError(result)
  /\ Len(reviews) = 2
  /\ \E k \in 1..2 : TrimmedLength(reviews[k]) = 10
  /\ \E k \in 1..2 : TrimmedLength(reviews[k]) = 11
  /\ result.total_reviews = 1

\* C3: in a non-error result the three counts are natural numbers whose sum
\* is total_reviews, which is the number of eligible segments.
C3_CountsSumToTotal ==
  (pc = "returned" /\ ~IsError(result)) =>
    LET d == result.sentiment_distribution
    IN  /\ DOMAIN d = Labels
        /\ \A k \in Labels : d[k] \in Nat
        /\ d.Positive + d.Neutral + d.Negative = result.total_reviews
        /\ d.Positive + d.Neutral + d.Negative
             = Len(EligibleSegments(reviews))

\* C3 witness: a result over two or more labels, one of them from a failed
\* call and one from an answer that is no label, with a segment left out.
C3_Witness ==
  /\ pc = "returned"
  /\ ~IsError(result)
  /\ result.total_reviews >= 2
  /\ Len(reviews) > result.total_reviews
  /\ \E k \in 1..Len(calls) : calls[k].fn = "sentiment" /\ calls[k].fails # "no"
  /\ result.sentiment_distribution.Positive > 0

\* C6: a failed classifier call is not propagated; it gives the label
\* neutral, the later segments are still classified, and the result is a
\* non-error result with one label for each eligible segment.
C6_ClassifierFailureIsSwallowed ==
  /\ pc # "raised"
  /\ Len(sentiments) = Len(SentimentCalls)
  /\ \A k \in 1..Len(SentimentCalls) :
       SentimentCalls[k].fails # "no" => sentiments[k] = neutral
  /\ (pc = "returned" /\ reviews # <<>>) =>
       /\ ~IsError(result)
       /\ Len(sentiments) = Len(EligibleSegments(reviews))
       /\ result.total_reviews = Len(sentiments)

\* C6 witness: the first classifier call fails, a later one answers positive,
\* and the analysis returns.
C6_Witness ==
  /\ pc = "returned"
  /\ Len(SentimentCalls) >= 2
  /\ SentimentCalls[1].fails = "call"
  /\ SentimentCalls[2].fails = "text"
  /\ Len(sentiments) >= 3
  /\ sentiments[3] = positive

\* C7: when the insight call fails the extractor returns the one message
\* "Unable to generate insights from reviews" and does not raise; the result
\* is a non-error result whose insights are that message followed by the
\* rule insights, its counts and percentages those of the labels collected.
C7_ExtractorFailureGivesTheMessage ==
  (calls # <<>> /\ calls[Len(calls)].fn = "insights"
                /\ calls[Len(calls)].fails # "no") =>
    /\ pc = "returned"
    /\ overall_insights = << UnableMsg >>
    /\ ~IsError(result)
    /\ result.insights =
         << UnableMsg >> \o _generate_summary_insights(
                              result.sentiment_distribution,
                              result.total_reviews)
    /\ result.total_reviews = Len(sentiments)
    /\ result.sentiment_distribution =
         [Positive |-> Occurrences(positive), Neutral |-> Occurrences(neutral),
          Negative |-> Occurrences(negative)]
    /\ \A k \in Labels :
         /\ result.total_reviews = 0 => result.sentiment_percentages[k] = 0
         /\ result.total_reviews > 0 =>
              2 * Abs(result.sentiment_percentages[k] * result.total_reviews
                      - 1000 * result.sentiment_distribution[k])
                <= result.total_reviews

\* C7 witness: the insight call fails after labels were collected, and the
\* result carries the message and two rule insights.
C7_Witness ==
  /\ pc = "returned"
  /\ calls # <<>>
  /\ calls[Len(calls)].fn = "insights"
  /\ calls[Len(calls)].fails = "text"
  /\ ~IsError(result)
  /\ Len(result.insights) = 3
  /\ result.insights[3] = StrongPositive

\* C9: the insights of a non-error result are the extractor's output, asked
\* for once with the original text, followed by the rule insights: at most
\* 7 + 2 = 9 entries, the rule insights last.
C9_ExtractedInsightsThenRuleInsights ==
  (pc = "returned" /\ ~IsError(result)) =>
    LET rule == _generate_summary_insights(result.sentiment_distribution,
                                           result.total_reviews)
        n == Len(result.insights)
    IN  /\ Len(overall_insights) <= 7
        /\ Len(rule) <= 2
        /\ n <= 9
        /\ n = Len(overall_insights) + Len(rule)
        /\ SubSeq(result.insights, 1, Len(overall_insights)) = overall_insights
        /\ SubSeq(result.insights, n - Len(rule) + 1, n) = rule
        /\ Cardinality({ k \in 1..Len(calls) : calls[k].fn = "insights" }) = 1
        /\ calls[Len(calls)] =
             [fn |-> "insights", arg |-> reviews_text,
              fails |-> calls[Len(calls)].fails]

\* C9 witness: a result of 9 insights, 7 extracted and 2 from the rules.
C9_Witness ==
  /\ pc = "returned"
  /\ ~IsError(result)
  /\ Len(result.insights) = 9
  /\ Len(overall_insights) = 7
  /\ Len(reviews) >= 2

(***************************************************************************)
(* C8: _get_overall_insights (SpecInsights).                               *)
(***************************************************************************)
\* what the loop appends for each line of the answer, line by line
ParsedLines ==
  LET lines == StrSplit(insights_text, <<NL>>)
  IN  [k \in 1..Len(lines) |-> ParseInsightLine(lines[k])]

\* the positions of the accepted lines among parsed
Accepted(parsed) == { k \in DOMAIN parsed : parsed[k] # <<>> }

\* the position of the i-th accepted line
NthAccepted(parsed, i) ==
  LET acc == Accepted(parsed)
  IN  CHOOSE k \in acc : Cardinality({ j \in acc : j <= k }) = i

\* C8: for an answer of the model the extractor returns the insights of the
\* first 7 accepted lines (of all of them when they are fewer), in the order
\* of the lines: never more than 7 entries.
C8_FirstSevenAcceptedLinesInOrder ==
  (pc = "returned" /\ calls[1].fails = "no") =>
    LET parsed == ParsedLines
        n == Cardinality(Accepted(parsed))
    IN  /\ Len(overall_insights) <= 7
        /\ Len(overall_insights) = (IF n < 7 THEN n ELSE 7)
        /\ \A i \in 1..Len(overall_insights) :
             << overall_insights[i] >> = parsed[NthAccepted(parsed, i)]

\* C8 witness: an answer with 8 accepted lines, a rejected line before the
\* seventh, of which 7 are returned.
C8_Witness ==
  /\ pc = "returned"
  /\ calls[1].fails = "no"
  /\ Len(overall_insights) = 7
  /\ overall_insights[7] # overall_insights[1]
  /\ LET parsed == ParsedLines
     IN  /\ Cardinality(Accepted(parsed)) > 7
         /\ \E k \in 1..NthAccepted(parsed, 7) : parsed[k] = <<>>

(***************************************************************************)
(* C4, C5: the percentages (SpecCounts).                                   *)
(***************************************************************************)
\* twice the distance, in tenths of a percent times total_reviews, between
\* the percentage of label k and the exact quotient
TwiceRoundingError(k) ==
  2 * Abs(result.sentiment_percentages[k] * result.total_reviews
          - 1000 * result.sentiment_distribution[k])

\* C4: with total_reviews > 0 every percentage is a whole number of tenths
\* between 0 and 100 that differs from count/total_reviews * 100 by at most
\* 0.05.
C4_PercentagesRoundedToOneDecimal ==
  (pc = "returned" /\ result.total_reviews > 0) =>
    \A k \in Labels :
      /\ result.sentiment_percentages[k] \in 0..1000
      /\ TwiceRoundingError(k) <= result.total_reviews

\* C4 witness: a percentage that lies exactly 0.05 from the quotient
\* (a tie, as 1 of 16), and one that is rounded up.
C4_Witness ==
  /\ pc = "returned"
  /\ result.total_reviews > 0
  /\ TwiceRoundingError("Positive") = result.total_reviews
  /\ result.sentiment_percentages.Negative * result.total_reviews
       > 1000 * result.sentiment_distribution.Negative

\* C5: with total_reviews > 0 the three percentages sum to between 99.9 and
\* 100.1.
C5_PercentagesSumTo100 ==
  (pc = "returned" /\ result.total_reviews > 0) =>
    (result.sentiment_percentages.Positive
     + result.sentiment_percentages.Neutral
     + result.sentiment_percentages.Negative) \in 999..1001

\* C5 witness: percentages that sum to 100.1.
C5_Witness ==
  /\ pc = "returned"
  /\ result.total_reviews > 0
  /\ result.sentiment_percentages.Positive
     + result.sentiment_percentages.Neutral
     + result.sentiment_percentages.Negative = 1001

(***************************************************************************)
(* C11, C15, C16: _split_reviews (SpecSplit).                              *)
(***************************************************************************)
\* s without its leading and trailing whitespace, by the positions of its
\* first and last non-whitespace characters
Trimmed(s) ==
  LET inked == { k \in 1..Len(s) : s[k] \notin Whitespace }
  IN  IF inked = {} THEN <<>>
      ELSE SubSeq(s, CHOOSE a \in inked : \A k \in inked : a <= k,
                     CHOOSE b \in inked : \A k \in inked : b >= k)

\* the paragraphs of text: what lies between the runs of two or more line
\* breaks, each run taken whole (start: where the paragraph in progress
\* begins, i: the position looked at)
RECURSIVE ParagraphsFrom(_, _, _)
ParagraphsFrom(text, start, i) ==
  IF i > Len(text) THEN << From(text, start) >>
  ELSE IF text[i] = NL /\ i < Len(text) /\ text[i + 1] = NL
       THEN LET e == SkipChars(text, i, {NL})
            IN  << SubSeq(text, start, i - 1) >> \o ParagraphsFrom(text, e, e)
       ELSE ParagraphsFrom(text, start, i + 1)

Paragraphs(text) == ParagraphsFrom(text, 1, 1)

\* text is two or more paragraphs, none of them blank
SeveralParagraphs(text) ==
  LET paras == Paragraphs(text)
  IN  Len(paras) >= 2 /\ \A k \in 1..Len(paras) : ~Blank(paras[k])

\* C11: a text of k >= 2 non-blank paragraphs separated by runs of two or
\* more line breaks gives exactly the k paragraphs, trimmed, in order.
C11_ParagraphsAreTheSegments ==
  (pc = "split" /\ SeveralParagraphs(reviews_text)) =>
    LET paras == Paragraphs(reviews_text)
    IN  reviews = [k \in 1..Len(paras) |-> Trimmed(paras[k])]

\* C11 witness: two paragraphs separated by three line breaks.
C11_Witness ==
  /\ pc = "split"
  /\ SeveralParagraphs(reviews_text)
  /\ Len(reviews) = 2
  /\ \E k \in 1..(Len(reviews_text) - 2) :
       \A j \in 0..2 : reviews_text[k + j] = NL

\* the non-blank pieces of a split, trimmed
NonBlankTrimmed(pieces) ==
  LET kept == SelectSeq(pieces, LAMBDA q : ~Blank(q))
  IN  [k \in 1..Len(kept) |-> Trimmed(kept[k])]

\* the whole trimmed input, when there is any
WholeTrimmed(text) == IF Blank(text) THEN <<>> ELSE << Trimmed(text) >>

\* an enumeration marker, digits followed by a period, occurs in text
HasEnumerationMarker(text) ==
  \E k \in 1..(Len(text) - 1) : text[k] \in Digits /\ text[k + 1] = "."

\* the word Review occurs in text, in any letter case
HasReviewWord(text) ==
  \E k \in 1..(Len(text) - 5) : ToLower(SubSeq(text, k, k + 5)) = ReviewWord

\* the segments as the claim selects them: those of the first strategy with
\* more than one non-blank piece, else the whole trimmed input
SegmentsByNonEmptyPieces(text) ==
  LET byBlankLines == NonBlankTrimmed(SplitBlankLines(text))
      byNumbers == NonBlankTrimmed(SplitNumbered(text))
      byReviewWord == NonBlankTrimmed(SplitReviewMarker(text))
  IN  IF Len(byBlankLines) > 1 THEN byBlankLines
      ELSE IF Len(byNumbers) > 1 THEN byNumbers
      ELSE IF Len(byReviewWord) > 1 THEN byReviewWord
      ELSE WholeTrimmed(text)

\* the segments of the first strategy whose separator or marker occurs in
\* the text at all, else the whole trimmed input
SegmentsByOccurrence(text) ==
  IF HasBlankLine(text) THEN NonBlankTrimmed(SplitBlankLines(text))
  ELSE IF HasEnumerationMarker(text) THEN NonBlankTrimmed(SplitNumbered(text))
  ELSE IF HasReviewWord(text) THEN NonBlankTrimmed(SplitReviewMarker(text))
  ELSE WholeTrimmed(text)

\* C15 as stated: _split_reviews returns the pieces of the first strategy,
\* in the order blank lines, enumeration markers, Review markers, that
\* yields more than one non-empty trimmed piece, and the whole trimmed input
\* when none does.
C15_FirstStrategyWithSeveralPieces ==
  pc = "split" => reviews = SegmentsByNonEmptyPieces(reviews_text)

\* C15 amended: _split_reviews returns the non-empty trimmed pieces of the
\* first strategy, in the same order, whose separator or marker occurs in
\* the text, however many of its pieces are non-empty, and the whole trimmed
\* input when none occurs.
C15_FirstStrategyThatSplits ==
  pc = "split" => reviews = SegmentsByOccurrence(reviews_text)

\* C15 witness: a single enumerated review, returned without its marker.
C15_Witness ==
  /\ pc = "split"
  /\ ~HasBlankLine(reviews_text)
  /\ reviews_text # <<>> /\ reviews_text[1] \in Digits
  /\ Len(reviews) = 1
  /\ reviews # WholeTrimmed(reviews_text)

\* C15 witness of a blank-line split with one non-empty piece, returned
\* without trying the later strategies.
C15_WitnessOneParagraph ==
  /\ pc = "split"
  /\ HasBlankLine(reviews_text)
  /\ HasEnumerationMarker(reviews_text)
  /\ Len(reviews) = 1
  /\ HasEnumerationMarker(reviews[1])

\* the non-whitespace characters of s, in order
Ink(s) == SelectSeq(s, LAMBDA ch : ch \notin Whitespace)

\* the segments one after the other
RECURSIVE Joined(_)
Joined(segments) ==
  IF segments = <<>> THEN <<>>
  ELSE Head(segments) \o Joined(Tail(segments))

\* text has a blank-line separator between two non-blank paragraphs
TwoParagraphs(text) ==
  LET paras == Paragraphs(text)
  IN  \E a, b \in 1..Len(paras) :
        a < b /\ ~Blank(paras[a]) /\ ~Blank(paras[b])

\* C16: a text with a blank-line separator between two non-empty paragraphs
\* that also holds enumeration or Review markers gives exactly the
\* blank-line split; the markers stay in the segments, nothing but
\* whitespace is removed.
C16_BlankLineSplitOnly ==
  (/\ pc = "split"
   /\ TwoParagraphs(reviews_text)
   /\ HasEnumerationMarker(reviews_text) \/ HasReviewWord(reviews_text)) =>
    /\ reviews = NonBlankTrimmed(Paragraphs(reviews_text))
    /\ Ink(Joined(reviews)) = Ink(reviews_text)

\* C16 witness: a paragraph holding a Review marker and one holding an
\* enumeration marker come back as the two segments.
C16_Witness ==
  /\ pc = "split"
  /\ TwoParagraphs(reviews_text)
  /\ Len(reviews) = 2
  /\ HasReviewWord(reviews[1])
  /\ HasEnumerationMarker(reviews[2])

(***************************************************************************)
(* C12, C13, C19: _generate_summary_insights (SpecCounts, where the        *)
(* result's insights are the rule insights alone).                         *)
(***************************************************************************)
TierMessages ==
  { OverwhelminglyPositive, GenerallyPositive, ConcerningNegative,
    MixedReviews }

\* the tier the ordered chain selects for p positive and n negative labels
\* out of t, the percentages compared as exact fractions
TierOfChain(p, n, t) ==
  IF 10 * p > 7 * t THEN OverwhelminglyPositive
  ELSE IF 2 * p > t THEN GenerallyPositive
  ELSE IF 2 * n > t THEN ConcerningNegative
  ELSE MixedReviews

\* C12: every non-empty label sequence gets exactly one tier message, the
\* one of the ordered chain with strict thresholds (70% exactly is generally
\* positive, 50% exactly positive or negative is mixed).
C12_ExactlyOneTierByTheChain ==
  (pc = "returned" /\ total_reviews > 0) =>
    LET ins == result.insights
    IN  /\ ins # <<>>
        /\ ins[1] = TierOfChain(sentiment_distribution.Positive,
                                sentiment_distribution.Negative,
                                total_reviews)
        /\ Cardinality({ k \in 1..Len(ins) : ins[k] \in TierMessages }) = 1

\* C12 witness: exactly 70% positive reported as generally positive.
C12_Witness ==
  /\ pc = "returned"
  /\ total_reviews > 0
  /\ 10 * sentiment_distribution.Positive = 7 * total_reviews
  /\ result.insights[1] = GenerallyPositive

\* C13: more than 70% positive gives the overwhelmingly positive and the
\* strong positive messages; more than 50% negative gives the concerning
\* negative message and no strong positive message.
C13_TierImpliesStrongOrNot ==
  (pc = "returned" /\ total_reviews > 0) =>
    /\ (10 * sentiment_distribution.Positive > 7 * total_reviews
          => result.insights = << OverwhelminglyPositive, StrongPositive >>)
    /\ (2 * sentiment_distribution.Negative > total_reviews
          => result.insights = << ConcerningNegative >>)

\* C13 witness: 8 positive, 1 negative, 1 neutral.
C13_Witness ==
  /\ pc = "returned"
  /\ sentiment_distribution =
       [Positive |-> 8, Neutral |-> 1, Negative |-> 1]
  /\ result.insights = << OverwhelminglyPositive, StrongPositive >>

\* C13 witness of the negative half: 6 negative, 2 positive, 2 neutral.
C13_WitnessNegative ==
  /\ pc = "returned"
  /\ sentiment_distribution =
       [Positive |-> 2, Neutral |-> 2, Negative |-> 6]
  /\ result.insights = << ConcerningNegative >>

\* the distributions of SpecCounts
Distributions == [Labels -> 0..MaxCount]

\* some non-empty distribution gets the tier message together with the
\* strong positive message
CoOccursWithStrong(tier) ==
  \E d \in Distributions :
    LET t == d.Positive + d.Neutral + d.Negative
    IN  t > 0 /\ _generate_summary_insights(d, t) = << tier, StrongPositive >>

\* the strong positive message is in the result exactly when
\* Positive > 2 * Negative
StrongExactlyWhenTwice ==
  (pc = "returned" /\ total_reviews > 0) =>
    ((\E k \in 1..Len(result.insights) :
        result.insights[k] = StrongPositive)
     <=> sentiment_distribution.Positive
           > 2 * sentiment_distribution.Negative)

\* C19 as stated: the strong positive message is appended exactly when
\* Positive > 2 * Negative, and each of the four tier messages has a
\* distribution where it is emitted together with it.
C19_StrongWithAnyTier ==
  /\ StrongExactlyWhenTwice
  /\ \A tier \in TierMessages : CoOccursWithStrong(tier)

\* C19 amended: the strong positive message is appended exactly when
\* Positive > 2 * Negative; it is emitted together with the overwhelmingly
\* positive, the generally positive and the mixed message for some
\* distribution each, and never together with the concerning negative one.
C19_StrongWithAnyTierButConcerning ==
  /\ StrongExactlyWhenTwice
  /\ \A tier \in TierMessages \ {ConcerningNegative} :
       CoOccursWithStrong(tier)
  /\ (pc = "returned" /\ total_reviews > 0
        /\ result.insights[1] = ConcerningNegative)
       => Len(result.insights) = 1

\* C19 witness: a mixed distribution with the strong positive message.
C19_Witness ==
  /\ pc = "returned"
  /\ sentiment_distribution.Negative > 0
  /\ result.insights = << MixedReviews, StrongPositive >>

(***************************************************************************)
(* C14, C20: analyze_reviews (Spec).                                       *)
(***************************************************************************)
RuleMessages == TierMessages \cup {StrongPositive}

\* C14: when there are segments but none is eligible, analyze_reviews does
\* not raise and returns a non-error result with total_reviews 0, every
\* count 0, every percentage 0 and, as insights, exactly what the insight
\* extractor returned, no rule insight among them.
C14_NoEligibleSegmentGivesZeros ==
  (/\ pc \in {"returned", "raised"}
   /\ reviews # <<>>
   /\ \A k \in 1..Len(reviews) : TrimmedLength(reviews[k]) <= 10) =>
    /\ pc = "returned"
    /\ ~IsError(result)
    /\ result.total_reviews = 0
    /\ \A k \in Labels :
         /\ result.sentiment_distribution[k] = 0
         /\ result.sentiment_percentages[k] = 0
    /\ result.insights = overall_insights
    /\ \A k \in 1..Len(result.insights) :
         result.insights[k] \notin RuleMessages
    /\ Len(calls) = 1 /\ calls[1].fn = "insights"

\* C14 witness: two short segments and an answer with insights.
C14_Witness ==
  /\ pc = "returned"
  /\ Len(reviews) = 2
  /\ ~IsError(result)
  /\ result.total_reviews = 0
  /\ Len(result.insights) = 7

\* the calls an invocation has made so far are those of the claim: none
\* before the segmentation and when it is empty; one sentiment call per
\* eligible segment gone past, in order; and at the return one insight call
\* with the whole text after them
CallsAsClaimed ==
  LET due == EligibleSegments(Visited)
      n == Len(due)
  IN  /\ pc = "input" => calls = <<>>
      /\ (pc = "returned" /\ reviews = <<>>) => calls = <<>>
      /\ (pc \in {"loop", "returned"} /\ reviews # <<>>) =>
           /\ Len(calls) = n + (IF pc = "returned" THEN 1 ELSE 0)
           /\ \A k \in 1..n :
                calls[k].fn = "sentiment" /\ calls[k].arg = due[k]
           /\ pc = "returned" =>
                /\ calls[n + 1].fn = "insights"
                /\ calls[n + 1].arg = reviews_text

\* a step issues at most one call, after those already made
OneCallAtATime ==
  \/ calls' = calls
  \/ /\ Len(calls') = Len(calls) + 1
     /\ SubSeq(calls', 1, Len(calls)) = calls

\* C20: an invocation whose segmentation is not empty issues one sentiment
\* call per eligible segment, in segment order and none twice, then exactly
\* one insight call (also when no segment is eligible), one call per step;
\* an invocation whose segmentation is empty issues no call.
C20_CallsInOrder == []CallsAsClaimed /\ [][OneCallAtATime]_vars

\* C20 witness: a failed sentiment call followed by the call for the next
\* segment and the insight call.
C20_Witness ==
  /\ pc = "returned"
  /\ Len(calls) = 3
  /\ calls[1].fails # "no"
  /\ calls[2].fn = "sentiment"
  /\ calls[3].fn = "insights"

\* C20 witness of no eligible segment: the insight call alone.
C20_WitnessNoneEligible ==
  /\ pc = "returned"
  /\ reviews # <<>>
  /\ Len(calls) = 1
  /\ calls[1].fn = "insights"

(***************************************************************************)
(* C17: _analyze_single_review_sentiment (SpecSentiment).                  *)
(***************************************************************************)
\* word occurs in s
Occurs(word, s) ==
  \E k \in 1..(Len(s) - Len(word) + 1) :
    SubSeq(s, k, k + Len(word) - 1) = word

\* the label the precedence rule gives to a normalised response
LabelByPrecedence(normalised) ==
  IF normalised \in {positive, negative, neutral} THEN normalised
  ELSE IF Occurs(positive, normalised) THEN positive
  ELSE IF Occurs(negative, normalised) THEN negative
  ELSE neutral

\* C17: for every response of the model the classifier returns one label of
\* positive, negative, neutral: the lowercased trimmed response when it is
\* one of the three, else positive when it contains "positive" (whatever
\* else it contains), else negative when it contains "negative", else
\* neutral.
C17_LabelByPrecedence ==
  (pc = "returned" /\ calls # <<>> /\ calls[1].fn = "sentiment"
                   /\ calls[1].fails = "no") =>
    /\ Len(sentiments) = 1
    /\ sentiments[1] \in {positive, negative, neutral}
    /\ sentiments[1] = LabelByPrecedence(ToLower(Trimmed(sentiment_text)))

\* C17 witness: a response with "negative" before "positive" and "neutral"
\* in it, classified positive.
C17_Witness ==
  /\ pc = "returned"
  /\ calls # <<>> /\ calls[1].fails = "no"
  /\ \E k \in 2..Len(sentiment_text) :
       /\ Occurs(negative, ToLower(SubSeq(sentiment_text, 1, k - 1)))
       /\ Occurs(positive, From(sentiment_text, k))
  /\ Occurs(neutral, sentiment_text)
  /\ sentiments = << positive >>

(***************************************************************************)
(* C18: the line test of _get_overall_insights (SpecLine, where the reply  *)
(* is a single line).                                                      *)
(***************************************************************************)
BulletMarkers == {BULLET, "-", "*"}

\* the number of whitespace-separated tokens of line: the positions where a
\* token begins
TokenCount(line) ==
  Cardinality({ k \in 1..Len(line) :
                  /\ line[k] \notin Whitespace
                  /\ k = 1 \/ line[k - 1] \in Whitespace })

\* the positions of line holding something other than a bullet marker or a
\* space
Content(line) ==
  { k \in 1..Len(line) : line[k] \notin BulletMarkers \cup {" "} }

\* what the claim has accepted of a one-line reply: a line that starts with
\* a bullet marker always, as the line without that marker and the
\* whitespace after it; another line when it has more than 3 tokens
AcceptedAsStated(reply) ==
  LET line == Trimmed(reply)
  IN  IF line # <<>> /\ line[1] \in BulletMarkers
      THEN << Trimmed(Tail(line)) >>
      ELSE IF TokenCount(line) > 3 THEN << line >>
      ELSE <<>>

\* the same with a bullet line taken from its first character that is
\* neither a bullet marker nor a space, and accepted only when it has one
AcceptedWithContent(reply) ==
  LET line == Trimmed(reply)
      content == Content(line)
  IN  IF line # <<>> /\ line[1] \in BulletMarkers
      THEN IF content = {} THEN <<>>
           ELSE << Trimmed(From(line, CHOOSE a \in content :
                                        \A k \in content : a <= k)) >>
      ELSE IF TokenCount(line) > 3 THEN << line >>
      ELSE <<>>

\* the reply of the state was received and parsed
LineParsed ==
  pc = "returned" /\ calls # <<>> /\ calls[1].fn = "insights"
                  /\ calls[1].fails = "no"

\* C18 as stated: a line is accepted exactly when, trimmed, it starts with
\* a bullet marker, the insight being the line without the marker and the
\* whitespace after it, or has no bullet marker and more than 3 tokens;
\* every line that starts with a bullet marker is accepted, also with 3 or
\* fewer tokens and with nothing after the marker.
C18_EveryBulletLineAccepted ==
  LineParsed => overall_insights = AcceptedAsStated(insights_text)

\* C18 amended: a line that starts with a bullet marker is accepted exactly
\* when it holds a character that is neither a bullet marker nor a space,
\* the insight being the line from the first such character on, trimmed (3
\* or fewer tokens are enough); a line without bullet marker is accepted
\* exactly when it has more than 3 tokens, as it is.
C18_BulletLineAcceptedWithContent ==
  LineParsed => overall_insights = AcceptedWithContent(insights_text)

\* C18 witness: a line of bullet markers and spaces only, not accepted.
C18_Witness ==
  /\ LineParsed
  /\ Len(Trimmed(insights_text)) >= 3
  /\ Trimmed(insights_text)[1] \in BulletMarkers
  /\ Content(Trimmed(insights_text)) = {}
  /\ overall_insights = <<>>

\* C18 witness of a bullet line with one token after two markers, accepted
\* as that token.
C18_WitnessShortBullet ==
  /\ LineParsed
  /\ Len(Trimmed(insights_text)) >= 3
  /\ Trimmed(insights_text)[1] \in BulletMarkers
  /\ Trimmed(insights_text)[2] \in BulletMarkers
  /\ overall_insights = << << "a" >> >>

(***************************************************************************)
(* app.py: display_review_analytics (lines 423-496).                       *)
(***************************************************************************)
BannerHighPct == 70
BannerMajorityPct == 50

\* the recommendation of lines 485-496, from the rounded percentages of the
\* result (in tenths of a percent); "none" after the return of line 430
Recommendation(results) ==
  IF "error" \in DOMAIN results THEN "none"
  ELSE LET positive_pct == results.sentiment_percentages.Positive
           negative_pct == results.sentiment_percentages.Negative
       IN  IF positive_pct > 10 * BannerHighPct THEN "Highly Recommended"
           ELSE IF positive_pct > 10 * BannerMajorityPct THEN "Generally Good"
           ELSE IF negative_pct > 10 * BannerMajorityPct THEN "Mixed Reviews"
           ELSE "Balanced Feedback"

(***************************************************************************)
(* SpecDisplay: lines 33-54 of analyze_reviews and the display of their    *)
(* result, on every distribution of at most MaxReviews positive and        *)
(* negative labels.                                                        *)
(***************************************************************************)
InitDisplay ==
  /\ reviews_text = <<>>
  /\ npieces = 0
  /\ pc = "counted"
  /\ reviews = <<>>
  /\ idx = 0
  /\ sentiments = <<>>
  /\ overall_insights = <<>>
  /\ \E p \in 0..MaxReviews : \E n \in 0..(MaxReviews - p) :
       sentiment_distribution = [Positive |-> p, Neutral |-> 0, Negative |-> n]
  /\ total_reviews = sentiment_distribution.Positive
                     + sentiment_distribution.Negative
  /\ result = None
  /\ insights_text = <<>>
  /\ sentiment_text = <<>>
  /\ calls = <<>>
  /\ api_key_env = TRUE
  /\ button = TRUE
  /\ reviews_analyzed = None
  /\ analyzer = "returned"
  /\ displayed = None
  /\ banner = "none"

\* display_review_analytics(results) (line 412)
DisplayReviewAnalytics ==
  /\ pc = "returned"
  /\ displayed' = result
  /\ banner' = Recommendation(result)
  /\ pc' = "displayed"
  /\ UNCHANGED <<reviews_text, npieces, reviews, idx, sentiments,
                 overall_insights, sentiment_distribution, total_reviews,
                 result, insights_text, sentiment_text, calls,
                 api_key_env, button, reviews_analyzed, analyzer>>

NextDisplay == ReturnResult \/ DisplayReviewAnalytics

SpecDisplay == InitDisplay /\ [][NextDisplay]_vars

\* the recommendation that names the tier of a rule insight
BannerOfTier(message) ==
  IF message = OverwhelminglyPositive THEN "Highly Recommended"
  ELSE IF message = GenerallyPositive THEN "Generally Good"
  ELSE IF message = ConcerningNegative THEN "Mixed Reviews"
  ELSE "Balanced Feedback"

\* C22: for every non-error result with total_reviews > 0 the
\* recommendation shown is of the tier of the rule insight in the result:
\* Highly Recommended with overwhelmingly positive, Generally Good with
\* generally positive, the negative-majority warning with concerning
\* negative, Balanced Feedback with mixed reviews.
C22_BannerInTheTierOfTheInsight ==
  (pc = "displayed" /\ total_reviews > 0) =>
    banner = BannerOfTier(displayed.insights[1])

(***************************************************************************)
(* app.py: main (lines 43-128) and review_analytics_tab (lines 367-421),   *)
(* one rerun of the script being one step.                                 *)
(***************************************************************************)
\* analyze_reviews (lines 13-54) as one call: replies[k] answers the
\* sentiment prompt of the k-th eligible review, insightReply the insight
\* prompt
analyze_reviews(text, replies, insightReply) ==
  LET segments == _split_reviews(text)
      eligible == SelectSeq(segments, Eligible)
      labels == [k \in 1..Len(eligible) |->
                   _analyze_single_review_sentiment(eligible[k], replies[k])]
  IN  IF segments = <<>> THEN ErrorResult
      ELSE AnalysisResult(Distribution(labels), Len(labels),
                          _get_overall_insights(text, insightReply))

\* the result kept only when it is not the error variant
StoreResults_UnlessError(cached, results) ==
  IF "error" \in DOMAIN results THEN cached ELSE results

\* st.session_state.reviews_analyzed = results (line 409)
StoreResults(cached, results) == results

\* api_key of lines 56-73: the key of the environment or the one entered
ApiKey(env, entered) == env \/ entered

\* the contents of the text area or of the uploaded file
UITexts ==
  { <<>>, <<" ">>, Rep("y", 11),
    Rep("y", 11) \o <<NL, NL>> \o Rep("y", 11) }

UISentimentReplies == { Reply(positive), Reply(negative), CallFails }

UIInsightReplies == { Reply(<<>>), CallFails }

\* the script before the first run of a session: the environment may hold
\* a key, the session state holds no result
InitUI ==
  /\ reviews_text = <<>>
  /\ npieces = 0
  /\ pc = "input"
  /\ reviews = <<>>
  /\ idx = 0
  /\ sentiments = <<>>
  /\ overall_insights = <<>>
  /\ sentiment_distribution = NoCounts
  /\ total_reviews = 0
  /\ result = None
  /\ insights_text = <<>>
  /\ sentiment_text = <<>>
  /\ calls = <<>>
  /\ api_key_env \in BOOLEAN
  /\ button = FALSE
  /\ reviews_analyzed = None
  /\ analyzer = "no"
  /\ displayed = None
  /\ banner = "none"

\* One rerun of the script.  entered: a key is in the sidebar's input;
\* pressed: the Analyze button was pressed; text: the reviews entered;
\* raises: ReviewAnalyzer(api_key) or analyze_reviews raises.  result is the
\* value analyze_reviews returned last.
RerunReviewTab ==
  \E entered, pressed, raises \in BOOLEAN, text \in UITexts,
     insightReply \in UIInsightReplies :
    \E replies \in [1..Len(_split_reviews(text)) -> UISentimentReplies] :
      LET api_key == ApiKey(api_key_env, entered)
          results == analyze_reviews(text, replies, insightReply)
      IN  /\ api_key_env' = api_key
          /\ button' = pressed
          /\ reviews_text' = text
          /\ IF ~api_key
             THEN \* line 370-372: the tab returns at once
                  /\ analyzer' = "no"
                  /\ displayed' = None
                  /\ banner' = "none"
                  /\ UNCHANGED <<result, reviews_analyzed>>
             ELSE IF pressed /\ text # <<>>
             THEN IF raises
                  THEN \* lines 414-416
                       /\ analyzer' = "raised"
                       /\ displayed' = None
                       /\ banner' = "none"
                       /\ UNCHANGED <<result, reviews_analyzed>>
                  ELSE \* lines 406-412
                       /\ analyzer' = "returned"
                       /\ result' = results
                       /\ reviews_analyzed' =
                            StoreResults(reviews_analyzed, results)
                       /\ displayed' = results
                       /\ banner' = Recommendation(results)
             ELSE \* lines 419-421
                  /\ analyzer' = "no"
                  /\ UNCHANGED <<result, reviews_analyzed>>
                  /\ IF reviews_analyzed # None
                     THEN /\ displayed' = reviews_analyzed
                          /\ banner' = Recommendation(reviews_analyzed)
                     ELSE /\ displayed' = None
                          /\ banner' = "none"
          /\ UNCHANGED <<npieces, pc, reviews, idx, sentiments,
                         overall_insights, sentiment_distribution,
                         total_reviews, insights_text, sentiment_text, calls>>

NextUI == RerunReviewTab

SpecUI == InitUI /\ [][NextUI]_vars

(***************************************************************************)
(* C21: the result kept in the session state (SpecUI).                     *)
(***************************************************************************)
\* the session state holds what analyze_reviews returned last, None before
\* it has returned anything
CacheIsLastReturned == reviews_analyzed = result

\* what a rerun may do to the session state and to the display
RerunAsClaimed ==
  /\ analyzer' = "raised" => reviews_analyzed' = reviews_analyzed
  /\ analyzer' = "returned" => reviews_analyzed' = result'
  /\ (~button' \/ reviews_text' = <<>>) =>
       /\ analyzer' = "no"
       /\ reviews_analyzed' = reviews_analyzed
       /\ reviews_analyzed # None => displayed' = reviews_analyzed

\* C21: over any sequence of reruns the session state holds the value
\* returned by the last analyze_reviews call that returned, error result
\* included; a rerun in which the call raises leaves it as it was; a rerun
\* without the button pressed or with empty text does not call the analyzer
\* and displays the value held, if there is one.
C21_CacheIsTheLastResult == []CacheIsLastReturned /\ [][RerunAsClaimed]_vars

\* C21 witness: an error result is held and displayed again by a rerun in
\* which the button is not pressed.
C21_Witness ==
  /\ ~button
  /\ analyzer = "no"
  /\ reviews_analyzed = ErrorResult
  /\ displayed = ErrorResult

====
